---- MODULE Spec2Model ----
(***************************************************************************)
(* Model of the multimodal router of map_app: the transit graph built by   *)
(* graph_loader.py, the search RouteService.dijkstra_transit, the          *)
(* segmenter RouteService.get_transit_segments_df and the alternatives     *)
(* loop RouteService.route_combined (src/core/routing.py).                 *)
(*                                                                         *)
(* Stops are the integers 1..NumStops (the code's stop_id strings, ordered *)
(* as the strings are), laid out on one street (a one-dimensional metric   *)
(* axis, metres).  Shapes are the strings "L1", "L2", "L3" and "walking".  *)
(***************************************************************************)
EXTENDS Integers, Sequences, FiniteSets, TLC

VARIABLES
    stop_pos,            \* stops_gdf geometry: stop -> position in metres
    stop_index,          \* stops_gdf index: stop -> label of its row
    transit_rows,        \* transit_gdf: shape_id -> [stop_ids, weight, frequency]
    graph_transit,       \* graph_transit: set of edges [u, v, shape_id, weight, frequency]
    heuristic,           \* RouteService.heuristic: "euclidean" or "zero"
    mode,                \* "stop": dijkstra_transit(src, dst, [], F); "virtual": route_combined(start, end)
    start_point,         \* route_combined argument start (position)
    end_point,           \* route_combined argument end (position)
    src,                 \* dijkstra_transit argument / local src
    dst,                 \* dijkstra_transit argument dst
    start_walking_edges, \* sequence of <<stop, walking_time>>
    restricted_shapes,   \* sequence of shape ids (the forbidden lines)
    cost,                \* dijkstra_transit local: (node, shape) -> accumulated cost
    previous,            \* dijkstra_transit local: (node, shape) -> (node, shape)
    queue,               \* dijkstra_transit local: the heap, a sequence of <<priority, node, shape>>
    end_shape,           \* dijkstra_transit local
    path,                \* dijkstra_transit result: sequence of <<node, shape>>
    total_cost,          \* dijkstra_transit result: cost or NoneCost
    alternatives,        \* route_combined local
    routes_list,         \* route_combined local / result
    pc,                  \* position of the running call
    other,               \* the arguments and locals of a second call, on a suspended thread
    graph_walk,          \* graph_walk: the set of street edges <<node, next node>>
    line,                \* route_walking result: the coordinates of the LineString
    time_walking         \* route_walking result: seconds, or NoneCost before the call returns

vars == <<stop_pos, stop_index, transit_rows, graph_transit, heuristic, mode, start_point, end_point,
          src, dst, start_walking_edges, restricted_shapes, cost, previous, queue,
          end_shape, path, total_cost, alternatives, routes_list, pc, other,
          graph_walk, line, time_walking>>

---------------------------------------------------------------------------
\* Bounds of the model.

MaxRideUnits == 2
MaxHeadwayUnits == 2
RideUnit == 120
HeadwayUnit == 60
GridStep == 250
MaxGridIndex == 4
MaxIndexShift == 1
PointStep == 50

\* Program constants.
MaxWalkingTime == 300
Alternatives == 3

Stops == {1, 2, 3}
FirstStop == 1
LastStop == 3
Lines == {"L1", "L2", "L3"}
WALKING == "walking"
None == "None"
NoneCost == -1
Real_Start == 0
Real_End == 4

Abs(x) == IF x < 0 THEN -x ELSE x
Range(s) == {s[i] : i \in DOMAIN s}

RECURSIVE SumSeq(_)
SumSeq(s) == IF s = <<>> THEN 0 ELSE Head(s) + SumSeq(Tail(s))

---------------------------------------------------------------------------
\* Times.  The code divides a distance in metres by a speed in m/s and
\* rounds (Python round, half to even; for whole metres no quotient below
\* falls on a half, so rounding is floor(x + 1/2)).

\* round(d / (5 / 3.6)): walking at 5 km/h
WalkTime(d) == (36 * d + 25) \div 50

\* round(d / (3 / 3.6)): walking at 3 km/h, off the pedestrian graph
SlowWalkTime(d) == (12 * d + 5) \div 10

\* d <= max_walking_time * walking_speed_mps, the radius of the buffer
WithinWalkingDistance(d) == 18 * d <= 25 * MaxWalkingTime

Distance(p, q) == Abs(p - q)

euclidean_heuristic(p, q) == (36 * Distance(p, q) + 275) \div 550

no_heuristic(p, q) == 0

---------------------------------------------------------------------------
\* The transit graph (graph_loader.py).

\* mutant of add_adjacent_stops: a ride edge from each stop of a row to every later one
add_adjacent_stops_to_later(rows) ==
    UNION { { [u |-> rows[l].stop_ids[i], v |-> rows[l].stop_ids[j], shape_id |-> l,
               weight |-> rows[l].stop_time_deltas[i], frequency |-> rows[l].frequency] :
              <<i, j>> \in { ij \in (DOMAIN rows[l].stop_ids) \X (DOMAIN rows[l].stop_ids) :
                               ij[1] < ij[2] } } : l \in DOMAIN rows }

\* one ride edge per hop of each row of the lines table (process_stops_adjacency
\* puts them in next_stop_id, add_adjacent_stops copies them to the graph)
add_adjacent_stops(rows) ==
    UNION { { [u |-> rows[l].stop_ids[i], v |-> rows[l].stop_ids[i + 1], shape_id |-> l,
               weight |-> rows[l].stop_time_deltas[i], frequency |-> rows[l].frequency] :
              i \in 1..(Len(rows[l].stop_ids) - 1) } : l \in DOMAIN rows }

\* the position of the row of a stop in the stops table, from 0
RowPosition(stop) == stop - FirstStop

\* one walking edge from each row of the stops table to each row within walking
\* distance (the row itself is one of them), but the row whose position is the
\* index label of the first: nearby_stop_idx == stop_idx compares a position
\* with a label
add_walking_edges(pos, index) ==
    { [u |-> a, v |-> b, shape_id |-> WALKING,
       weight |-> WalkTime(Distance(pos[a], pos[b])), frequency |-> 0] :
      <<a, b>> \in { pr \in (DOMAIN pos) \X (DOMAIN pos) :
                       /\ WithinWalkingDistance(Distance(pos[pr[1]], pos[pr[2]]))
                       /\ RowPosition(pr[2]) # index[pr[1]] } }

create_graph_transit(rows, pos, index) ==
    add_adjacent_stops(rows) \cup add_walking_edges(pos, index)

OutEdges(g, n) == { e \in g : e.u = n }

---------------------------------------------------------------------------
\* The pedestrian graph (graph_walk): one street along the axis with a node
\* at every grid point, consecutive nodes joined by an edge of their distance.

WalkNodes == { k * GridStep : k \in 0..MaxGridIndex }

Min2(a, b) == IF a <= b THEN a ELSE b
Max2(a, b) == IF a >= b THEN a ELSE b

\* ox.distance.nearest_nodes: the node at least distance, the first on a tie
nearest_nodes(p) ==
    CHOOSE n \in WalkNodes :
        \A m \in WalkNodes : Distance(p, n) < Distance(p, m)
                             \/ (Distance(p, n) = Distance(p, m) /\ n <= m)

\* the edges of the whole street, each between a node and the next
Street == { <<n, n + GridStep>> : n \in WalkNodes \ {MaxGridIndex * GridStep} }

\* the points of the street a walk can start or end at
WalkPoints == { k * PointStep : k \in 0..((MaxGridIndex * GridStep) \div PointStep) }

\* nx.has_path on the street: every edge between the two nodes is there
has_path(a, b) ==
    /\ a \in WalkNodes
    /\ b \in WalkNodes
    /\ \A e \in Street :
          (e[1] >= Min2(a, b) /\ e[2] <= Max2(a, b)) => e \in graph_walk

\* nx.shortest_path_length(..., weight='length') on the street
shortest_path_length(a, b) == Distance(a, b)

\* nx.shortest_path on the street: the nodes from a to b
RECURSIVE shortest_path(_, _)
shortest_path(a, b) ==
    IF a = b THEN <<a>>
    ELSE <<a>> \o shortest_path(IF a < b THEN a + GridStep ELSE a - GridStep, b)

\* RouteService.route_walking: the coordinates of the LineString
route_walking_line(p, q) ==
    LET a == nearest_nodes(p)
        b == nearest_nodes(q)
    IN  <<p, a>>
        \o (IF a = b \/ ~has_path(a, b) THEN <<>> ELSE shortest_path(a, b))
        \o <<b, q>>

\* RouteService.route_walking: the walking time in seconds (the geometry is left out)
route_walking(p, q) ==
    LET a == nearest_nodes(p)
        b == nearest_nodes(q)
    IN  SlowWalkTime(Distance(p, a))
        + (IF a = b THEN 0
           ELSE IF ~has_path(a, b) THEN SlowWalkTime(Distance(a, b))
           ELSE WalkTime(shortest_path_length(a, b)))
        + SlowWalkTime(Distance(b, q))

---------------------------------------------------------------------------
\* Order of the heap entries: Python compares the tuples
\* (priority_cost, node, shape_id) lexicographically, the strings by code point.

ShapeOrder == <<"L1", "L2", "L3", "None", "walking">>

ShapeRank(sh) == CHOOSE i \in DOMAIN ShapeOrder : ShapeOrder[i] = sh

EntryLess(a, b) ==
    \/ a[1] < b[1]
    \/ a[1] = b[1] /\ a[2] < b[2]
    \/ a[1] = b[1] /\ a[2] = b[2] /\ ShapeRank(a[3]) < ShapeRank(b[3])

\* mutant of HeapMinIndex: the entry of least priority that was pushed first
HeapMinIndexByPriority(q) ==
    CHOOSE i \in DOMAIN q :
        \A j \in DOMAIN q : q[i][1] < q[j][1] \/ (q[i][1] = q[j][1] /\ i <= j)

\* index of the entry heapq.heappop returns: a least one
HeapMinIndex(q) ==
    CHOOSE i \in DOMAIN q : \A j \in DOMAIN q : ~EntryLess(q[j], q[i])

RemoveAt(q, i) == [k \in 1..(Len(q) - 1) |-> IF k < i THEN q[k] ELSE q[k + 1]]

---------------------------------------------------------------------------
\* RouteService.dijkstra_transit

\* heuristic(graph.nodes[n]['pos'], graph.nodes[dst]['pos'])
HeuristicCost(n) ==
    IF heuristic = "euclidean" THEN euclidean_heuristic(stop_pos[n], stop_pos[dst])
    ELSE no_heuristic(stop_pos[n], stop_pos[dst])

\* mutant of Penalty: only a change between two lines of the table is charged
PenaltyBetweenLines(current_shape, next_shape, frequency) ==
    IF current_shape \in Lines /\ next_shape \in Lines /\ next_shape # current_shape
    THEN frequency ELSE 0

\* mutant of Penalty: the test next_shape != current_shape is left out
PenaltyEveryEdge(current_shape, next_shape, frequency) ==
    IF current_shape # None /\ next_shape # None THEN frequency ELSE 0

\* the transfer penalty of taking an edge of next_shape from a state reached by current_shape
\* mutant of Penalty: a change of line is charged the headway of the line left
PenaltyOfLineLeft(current_shape, next_shape, frequency) ==
    IF current_shape # None /\ next_shape # None /\ next_shape # current_shape
    THEN (IF current_shape \in DOMAIN transit_rows
          THEN transit_rows[current_shape].frequency ELSE frequency)
    ELSE 0

Penalty(current_shape, next_shape, frequency) ==
    IF current_shape # None /\ next_shape # None /\ next_shape # current_shape
    THEN frequency ELSE 0

\* the priority a relaxed state is pushed with
PriorityCost(tentative_cost, neighbor, penalty) ==
    tentative_cost + (HeuristicCost(neighbor) + 2 * penalty)

Put(f, k, v) == [x \in DOMAIN f \cup {k} |-> IF x = k THEN v ELSE f[x]]

\* mutant of Restricted: no shape is ever skipped
RestrictedNever(e) == FALSE

\* whether an edge is skipped: its shape is in restricted_shapes
Restricted(e) == e.shape_id \in Range(restricted_shapes)

\* the seeds pushed for the walking edges from the real origin
RECURSIVE SeedWalking(_, _)
SeedWalking(edges, st) ==
    IF edges = <<>> THEN st
    ELSE LET first_transit_stop == Head(edges)[1]
             walking_time == Head(edges)[2]
             key == <<first_transit_stop, WALKING>>
         IN  SeedWalking(Tail(edges),
                 [cost |-> Put(st.cost, key, walking_time),
                  previous |-> Put(st.previous, key, <<Real_Start, None>>),
                  queue |-> Append(st.queue,
                      <<walking_time + HeuristicCost(first_transit_stop),
                        first_transit_stop, WALKING>>)])

\* mutant of SeedEdges: the seeds are charged the travel time only
RECURSIVE SeedEdgesWithoutHeadway(_, _)
SeedEdgesWithoutHeadway(edges, st) ==
    IF edges = {} THEN st
    ELSE LET e == CHOOSE x \in edges : TRUE
             key == <<e.v, e.shape_id>>
             tentative_cost == e.weight
         IN  IF Restricted(e) THEN SeedEdgesWithoutHeadway(edges \ {e}, st)
             ELSE SeedEdgesWithoutHeadway(edges \ {e},
                 [cost |-> Put(st.cost, key, tentative_cost),
                  previous |-> Put(st.previous, key, <<src, None>>),
                  queue |-> Append(st.queue,
                      <<tentative_cost + HeuristicCost(e.v), e.v, e.shape_id>>)])

\* the seeds pushed for the edges leaving the origin stop
RECURSIVE SeedEdges(_, _)
SeedEdges(edges, st) ==
    IF edges = {} THEN st
    ELSE LET e == CHOOSE x \in edges : TRUE
             key == <<e.v, e.shape_id>>
             tentative_cost == e.weight + e.frequency
         IN  IF Restricted(e) THEN SeedEdges(edges \ {e}, st)
             ELSE SeedEdges(edges \ {e},
                 [cost |-> Put(st.cost, key, tentative_cost),
                  previous |-> Put(st.previous, key, <<src, None>>),
                  queue |-> Append(st.queue,
                      <<tentative_cost + HeuristicCost(e.v), e.v, e.shape_id>>)])

\* the relaxation of the edges leaving current, reached by current_shape
RECURSIVE Relax(_, _, _, _)
Relax(edges, current, current_shape, st) ==
    IF edges = {} THEN st
    ELSE LET e == CHOOSE x \in edges : TRUE
             key == <<e.v, e.shape_id>>
             penalty == Penalty(current_shape, e.shape_id, e.frequency)
             tentative_cost == st.cost[<<current, current_shape>>] + e.weight + penalty
         IN  IF Restricted(e) THEN Relax(edges \ {e}, current, current_shape, st)
             ELSE IF key \notin DOMAIN st.cost \/ tentative_cost < st.cost[key]
             THEN Relax(edges \ {e}, current, current_shape,
                 [cost |-> Put(st.cost, key, tentative_cost),
                  previous |-> Put(st.previous, key, <<current, current_shape>>),
                  queue |-> Append(st.queue,
                      <<PriorityCost(tentative_cost, e.v, penalty), e.v, e.shape_id>>)])
             ELSE Relax(edges \ {e}, current, current_shape, st)

\* the predecessors followed back from a state, the state first
RECURSIVE FollowPrevious(_, _)
FollowPrevious(prev, current) ==
    IF current \in DOMAIN prev
    THEN <<current>> \o FollowPrevious(prev, prev[current])
    ELSE <<>>

\* mutant of Reverse: the list is left in the order it was built
NotReversed(s) == s

Reverse(s) == [i \in 1..Len(s) |-> s[Len(s) + 1 - i]]

EmptyMap == [k \in {} |-> 0]

---------------------------------------------------------------------------
\* RouteService.get_transit_segments_df

Last(s) == s[Len(s)]

\* a sequence of numbers in ascending order (pandas sorts the values for the median)
RECURSIVE SortNumbers(_)
SortNumbers(s) ==
    IF s = <<>> THEN <<>>
    ELSE LET rest == SortNumbers(Tail(s))
             below == SelectSeq(rest, LAMBDA x : x <= Head(s))
             above == SelectSeq(rest, LAMBDA x : x > Head(s))
         IN  below \o <<Head(s)>> \o above

\* pd.Series(freqs).median(); the two middle values of an even count are averaged
Median(s) ==
    LET t == SortNumbers(s)
        n == Len(t)
    IN  IF n % 2 = 1 THEN t[(n + 1) \div 2]
        ELSE (t[n \div 2] + t[n \div 2 + 1]) \div 2

\* the edge finalize_transit_segment reads for a hop: the one of the shape, else any
ChosenEdge(data, shape_id) ==
    IF \E e \in data : e.shape_id = shape_id
    THEN CHOOSE e \in data : e.shape_id = shape_id
    ELSE CHOOSE e \in data : TRUE

\* the edges read for the hops of a segment, in order; a hop without edge is skipped
RECURSIVE SegmentEdges(_, _)
SegmentEdges(seg_stops, shape_id) ==
    IF Len(seg_stops) < 2 THEN <<>>
    ELSE LET data == { e \in graph_transit : e.u = seg_stops[1] /\ e.v = seg_stops[2] }
         IN  (IF data = {} THEN <<>> ELSE <<ChosenEdge(data, shape_id)>>)
             \o SegmentEdges(Tail(seg_stops), shape_id)

\* mutant of finalize_transit_segment: no row is appended
finalize_transit_segment_no_row(segments, shape_id, seg_stops) == segments

\* the segments with the transit row of seg_stops appended, when the shape has a row
finalize_transit_segment(segments, shape_id, seg_stops) ==
    IF seg_stops = <<>> THEN segments
    ELSE IF shape_id \notin DOMAIN transit_rows THEN segments
    ELSE LET chosen == SegmentEdges(seg_stops, shape_id)
             freqs == [i \in DOMAIN chosen |-> chosen[i].frequency]
             weights == [i \in DOMAIN chosen |-> chosen[i].weight]
         IN  Append(segments,
                 [mode |-> "transit", shape_id |-> shape_id, stops |-> seg_stops,
                  frequency |-> IF freqs = <<>> THEN NoneCost ELSE Median(freqs),
                  segment_time_seconds |-> IF weights = <<>> THEN NoneCost ELSE SumSeq(weights)])

\* the position of a stop of a walking segment: the origin, the destination or the stop
WalkStopPos(stop) ==
    IF stop = Real_Start THEN start_point
    ELSE IF stop = Real_End THEN end_point
    ELSE stop_pos[stop]

\* mutant of finalize_walking_segment: the first hop of the walk is kept, not its ends
finalize_walking_segment_first_hop(segments, walk_stops) ==
    IF Len(walk_stops) < 2 THEN segments
    ELSE LET ends == <<walk_stops[1], walk_stops[2]>>
         IN  Append(segments,
                 [mode |-> "walking", shape_id |-> None, stops |-> ends,
                  frequency |-> NoneCost,
                  segment_time_seconds |->
                      route_walking(WalkStopPos(ends[1]), WalkStopPos(ends[2]))])

\* the segments with the walking row of walk_stops appended: its first and last stop only
finalize_walking_segment(segments, walk_stops) ==
    IF Len(walk_stops) < 2 THEN segments
    ELSE LET ends == <<walk_stops[1], Last(walk_stops)>>
         IN  Append(segments,
                 [mode |-> "walking", shape_id |-> None, stops |-> ends,
                  frequency |-> NoneCost,
                  segment_time_seconds |->
                      route_walking(WalkStopPos(ends[1]), WalkStopPos(ends[2]))])

Finalize(segments, current_shape, current_stops) ==
    IF current_shape = WALKING THEN finalize_walking_segment(segments, current_stops)
    ELSE finalize_transit_segment(segments, current_shape, current_stops)

\* mutant of GroupByShape: a new segment starts at the stop reached, not at the transfer stop
RECURSIVE GroupByShapeFromNextStop(_, _, _, _)
GroupByShapeFromNextStop(rest, current_shape, current_stops, segments) ==
    IF rest = <<>>
    THEN IF current_stops # <<>> THEN Finalize(segments, current_shape, current_stops)
         ELSE segments
    ELSE LET stop_id == Head(rest)[1]
             shape_id == Head(rest)[2]
         IN  IF shape_id = current_shape
             THEN GroupByShapeFromNextStop(Tail(rest), current_shape,
                                           Append(current_stops, stop_id), segments)
             ELSE GroupByShapeFromNextStop(Tail(rest), shape_id, <<stop_id>>,
                                           Finalize(segments, current_shape, current_stops))

\* the loop over path[1:], then the last segment
RECURSIVE GroupByShape(_, _, _, _)
GroupByShape(rest, current_shape, current_stops, segments) ==
    IF rest = <<>>
    THEN IF current_stops # <<>> THEN Finalize(segments, current_shape, current_stops)
         ELSE segments
    ELSE LET stop_id == Head(rest)[1]
             shape_id == Head(rest)[2]
         IN  IF shape_id = current_shape
             THEN GroupByShape(Tail(rest), current_shape, Append(current_stops, stop_id), segments)
             ELSE GroupByShape(Tail(rest), shape_id, <<Last(current_stops), stop_id>>,
                               Finalize(segments, current_shape, current_stops))

\* the rows of the returned frame (no row: a frame without columns, unless the path is empty)
get_transit_segments_df(p) ==
    IF p = <<>> THEN <<>>
    ELSE GroupByShape(Tail(p), p[1][2], <<p[1][1]>>, <<>>)

---------------------------------------------------------------------------
\* RouteService.get_start_walking_edges, get_end_transit_node

\* geometry.distance(point).idxmin(): the first row at least distance
NearestStop(point) ==
    CHOOSE n \in Stops :
        \A m \in Stops :
            \/ Distance(point, stop_pos[n]) < Distance(point, stop_pos[m])
            \/ Distance(point, stop_pos[n]) = Distance(point, stop_pos[m]) /\ n <= m

\* the stops of a set as a sequence in ascending order
RECURSIVE StopsInOrder(_)
StopsInOrder(S) ==
    IF S = {} THEN <<>>
    ELSE LET m == CHOOSE x \in S : \A y \in S : x <= y
         IN  <<m>> \o StopsInOrder(S \ {m})

\* mutant of get_start_walking_edges: the nearest stop is not skipped among
\* the stops in range
get_start_walking_edges_no_skip(start) ==
    LET start_transit_node == NearestStop(start)
        walking_distance_start == Distance(start, stop_pos[start_transit_node])
        nearest == <<start_transit_node, WalkTime(walking_distance_start)>>
        nearby == StopsInOrder({ n \in Stops :
                      WithinWalkingDistance(Distance(start, stop_pos[n])) })
    IN  IF ~WithinWalkingDistance(walking_distance_start) THEN <<nearest>>
        ELSE <<nearest>> \o
             [i \in DOMAIN nearby |-> <<nearby[i], WalkTime(Distance(start, stop_pos[nearby[i]]))>>]

get_start_walking_edges(start) ==
    LET start_transit_node == NearestStop(start)
        walking_distance_start == Distance(start, stop_pos[start_transit_node])
        nearest == <<start_transit_node, WalkTime(walking_distance_start)>>
        nearby == StopsInOrder({ n \in Stops :
                      /\ WithinWalkingDistance(Distance(start, stop_pos[n]))
                      /\ n # start_transit_node })
    IN  IF ~WithinWalkingDistance(walking_distance_start) THEN <<nearest>>
        ELSE <<nearest>> \o
             [i \in DOMAIN nearby |-> <<nearby[i], WalkTime(Distance(start, stop_pos[nearby[i]]))>>]

get_end_transit_node(end) == NearestStop(end)

---------------------------------------------------------------------------
\* RouteService.route_combined

\* mutant of TotalTime: the waiting times are left out
TotalTimeOfSegments(route_df) ==
    SumSeq([i \in DOMAIN route_df |->
               IF route_df[i].segment_time_seconds = NoneCost THEN 0
               ELSE route_df[i].segment_time_seconds])

\* route_df['segment_time_seconds'].sum() + route_df['frequency'].sum(skipna=True)
TotalTime(route_df) ==
    SumSeq([i \in DOMAIN route_df |->
               IF route_df[i].segment_time_seconds = NoneCost THEN 0
               ELSE route_df[i].segment_time_seconds])
    + SumSeq([i \in DOMAIN route_df |->
               IF route_df[i].frequency = NoneCost THEN 0 ELSE route_df[i].frequency])

\* mutant of CurrentRouteShapes: the shapes of the whole table, not of the current route
CurrentRouteShapesOfTable(route_df) ==
    IF route_df = <<>> THEN {} ELSE DOMAIN transit_rows

\* mutant of CurrentRouteShapes: the shape_id of every segment, whatever its mode
CurrentRouteShapesEveryMode(route_df) ==
    { route_df[i].shape_id : i \in DOMAIN route_df }

\* set(route_df[route_df['mode']=='transit']['shape_id'].unique())
CurrentRouteShapes(route_df) ==
    { route_df[i].shape_id : i \in { j \in DOMAIN route_df : route_df[j].mode = "transit" } }

\* mutant of SortRoutes: an element goes behind the later elements of equal total time
RECURSIVE SortRoutesTiesBehind(_)
SortRoutesTiesBehind(s) ==
    IF s = <<>> THEN <<>>
    ELSE LET rest == SortRoutesTiesBehind(Tail(s))
             h == Head(s)
             below == SelectSeq(rest, LAMBDA x : x.total_time <= h.total_time)
             above == SelectSeq(rest, LAMBDA x : x.total_time > h.total_time)
         IN  below \o <<h>> \o above

\* list.sort(key=lambda x: x[1]): stable, ascending total time
RECURSIVE SortRoutes(_)
SortRoutes(s) ==
    IF s = <<>> THEN <<>>
    ELSE LET rest == SortRoutes(Tail(s))
             h == Head(s)
             \* h goes before the first sorted later element that is not smaller,
             \* that is, after the later elements strictly smaller than it
             below == SelectSeq(rest, LAMBDA x : x.total_time < h.total_time)
             above == SelectSeq(rest, LAMBDA x : x.total_time >= h.total_time)
         IN  below \o <<h>> \o above

---------------------------------------------------------------------------
\* The inputs: the lines table, the layout of the stops, the query.

\* stop sequences of a line: acyclic, at least two stops
StopSequences ==
    { q \in UNION { [1..n -> Stops] : n \in 2..Cardinality(Stops) } :
        \A i, j \in DOMAIN q : i # j => q[i] # q[j] }

\* the sequences that run in ascending stop order
ForwardSequences == { q \in StopSequences : \A i \in 1..(Len(q) - 1) : q[i] < q[i + 1] }

Row(stop_ids, delta, frequency) ==
    [stop_ids |-> stop_ids,
     stop_time_deltas |-> [i \in 1..(Len(stop_ids) - 1) |-> delta],
     frequency |-> frequency]

RideTimes == { k * RideUnit : k \in 1..MaxRideUnits }
Headways == { k * HeadwayUnit : k \in 1..MaxHeadwayUnits }

\* L1 runs forward at the unit hop time and headway, L2 along any sequence at
\* any hop time and headway, and L3, when the table has it, from the first
\* stop to the last at the unit hop time and headway
LineTables ==
    { [l \in ls |-> CASE l = "L1" -> Row(q1, RideUnit, HeadwayUnit)
                      [] l = "L2" -> Row(q2, w2, f2)
                      [] OTHER    -> Row(<<FirstStop, LastStop>>, RideUnit, HeadwayUnit)] :
      ls \in {{"L1", "L2"}, Lines}, q1 \in ForwardSequences, q2 \in StopSequences,
      w2 \in RideTimes, f2 \in Headways }

\* stops in ascending position from 0, consecutive stops one or two grid steps
\* apart, the gaps not shrinking
Layouts ==
    { p \in [Stops -> WalkNodes] :
        /\ p[FirstStop] = 0
        /\ \A n \in Stops \ {FirstStop} : p[n] - p[n - 1] \in {GridStep, 2 * GridStep}
        /\ \A n \in Stops \ {FirstStop, FirstStop + 1} : p[n] - p[n - 1] >= p[n - 1] - p[n - 2] }

\* the index labels of the stops table: the rows of stops.txt that are left
\* after the leading rows of stops no line serves were filtered out
StopIndexes == { [n \in Stops |-> RowPosition(n) + k] : k \in 0..MaxIndexShift }

RECURSIVE ShapesInOrder(_)
ShapesInOrder(S) ==
    IF S = {} THEN <<>>
    ELSE LET m == CHOOSE x \in S : \A y \in S : ShapeRank(x) <= ShapeRank(y)
         IN  <<m>> \o ShapesInOrder(S \ {m})

TypeOK ==
    /\ mode \in {"stop", "virtual", "walk"}
    /\ heuristic \in {"euclidean", "zero"}
    /\ pc \in {"route_walking", "route_combined", "search", "loop", "found", "segments", "sort", "done", "error"}

\* the service: the tables, the graph built from them, the heuristic
InitService ==
    /\ stop_pos \in Layouts
    /\ stop_index \in StopIndexes
    /\ transit_rows \in LineTables
    /\ graph_transit = create_graph_transit(transit_rows, stop_pos, stop_index)
    /\ heuristic \in {"euclidean", "zero"}
    /\ graph_walk = Street
    /\ line = <<>>
    /\ time_walking = NoneCost

InitLocals ==
    /\ start_walking_edges = <<>>
    /\ cost = EmptyMap
    /\ previous = EmptyMap
    /\ queue = <<>>
    /\ end_shape = None
    /\ path = <<>>
    /\ total_cost = NoneCost
    /\ alternatives = 0
    /\ routes_list = <<>>

\* no second call
NoQuery == [pc |-> "none"]

\* a call dijkstra_transit(src, dst, [], restricted_shapes, heuristic)
InitSearch ==
    /\ InitService
    /\ other = NoQuery
    /\ mode = "stop"
    /\ src \in Stops
    /\ dst \in Stops
    /\ restricted_shapes \in { ShapesInOrder(F) : F \in { G \in SUBSET Lines : Cardinality(G) <= 1 } }
    /\ start_point = 0
    /\ end_point = 0
    /\ pc = "search"
    /\ InitLocals

\* a call route_combined(start, end), the two points at stops
InitPlanner ==
    /\ InitService
    /\ other = NoQuery
    /\ mode = "virtual"
    /\ src = Real_Start
    /\ dst = Real_Start
    /\ restricted_shapes = <<>>
    /\ start_point \in Range(stop_pos)
    /\ end_point \in Range(stop_pos)
    /\ pc = "route_combined"
    /\ InitLocals

Init == InitSearch \/ InitPlanner

\* the arguments and locals of the running call
Locals ==
    [start_point |-> start_point, end_point |-> end_point, src |-> src, dst |-> dst,
     start_walking_edges |-> start_walking_edges, restricted_shapes |-> restricted_shapes,
     cost |-> cost, previous |-> previous, queue |-> queue, end_shape |-> end_shape,
     path |-> path, total_cost |-> total_cost, alternatives |-> alternatives,
     routes_list |-> routes_list, pc |-> pc]

\* two calls route_combined(start, end) on two threads of one service, each
\* from a stop to another stop; the service has the default
\* heuristic, the default index and two lines of unit hop time and headway
InitConcurrent ==
    /\ InitService
    /\ heuristic = "euclidean"
    /\ \A n \in Stops : stop_index[n] = RowPosition(n)
    /\ DOMAIN transit_rows = {"L1", "L2"}
    /\ transit_rows["L2"].frequency = HeadwayUnit
    /\ \A i \in DOMAIN transit_rows["L2"].stop_time_deltas :
          transit_rows["L2"].stop_time_deltas[i] = RideUnit
    /\ mode = "virtual"
    /\ src = Real_Start
    /\ dst = Real_Start
    /\ restricted_shapes = <<>>
    /\ \E a, b \in Stops :
          a # b /\ start_point = stop_pos[a] /\ end_point = stop_pos[b]
    /\ pc = "route_combined"
    /\ InitLocals
    /\ \E a, b \in Stops :
          /\ a # b
          /\ other = [Locals EXCEPT !.start_point = stop_pos[a], !.end_point = stop_pos[b]]

\* a trunk line of uneven hop times and a feeder line that joins it at its
\* second stop: five stops, the feeder's first stop a short walk from the
\* trunk's first, the others out of walking range of each other
TrunkStops == 1..5

TrunkLayout ==
    [n \in TrunkStops |->
        CASE n = 1 -> 0 [] n = 2 -> GridStep [] n = 3 -> 4 * GridStep
          [] n = 4 -> 8 * GridStep [] OTHER -> 12 * GridStep]

TrunkRows ==
    [l \in {"L1", "L2"} |->
        IF l = "L1"
        THEN [stop_ids |-> <<1, 3, 4, 5>>, stop_time_deltas |-> <<600, 100, 290>>,
              frequency |-> 200]
        ELSE [stop_ids |-> <<2, 3>>, stop_time_deltas |-> <<100>>, frequency |-> 300]]

\* a call dijkstra_transit(src, dst, [], restricted_shapes, heuristic) on the
\* trunk network
InitTrunk ==
    /\ stop_pos = TrunkLayout
    /\ stop_index = [n \in TrunkStops |-> RowPosition(n)]
    /\ transit_rows = TrunkRows
    /\ graph_transit = create_graph_transit(transit_rows, stop_pos, stop_index)
    /\ heuristic \in {"euclidean", "zero"}
    /\ graph_walk = Street
    /\ line = <<>>
    /\ time_walking = NoneCost
    /\ other = NoQuery
    /\ mode = "stop"
    /\ src \in TrunkStops
    /\ dst \in TrunkStops
    /\ restricted_shapes \in { ShapesInOrder(F) : F \in { G \in SUBSET Lines : Cardinality(G) <= 1 } }
    /\ start_point = 0
    /\ end_point = 0
    /\ pc = "search"
    /\ InitLocals

\* a call route_combined(start, end) from any point of the street to a stop
InitBoarding ==
    /\ InitService
    /\ heuristic = "euclidean"
    /\ \A n \in Stops : stop_index[n] = RowPosition(n)
    /\ DOMAIN transit_rows = {"L1", "L2"}
    /\ other = NoQuery
    /\ mode = "virtual"
    /\ src = Real_Start
    /\ dst = Real_Start
    /\ restricted_shapes = <<>>
    /\ start_point \in WalkPoints
    /\ end_point \in Range(stop_pos)
    /\ pc = "route_combined"
    /\ InitLocals

\* a call route_combined(start, end) between two stops of a service with the
\* default heuristic and index and three lines of unit hop time and headway,
\* L1 through every stop
InitThreeLines ==
    /\ InitPlanner
    /\ heuristic = "euclidean"
    /\ \A n \in Stops : stop_index[n] = RowPosition(n)
    /\ DOMAIN transit_rows = Lines
    /\ Len(transit_rows["L1"].stop_ids) = Cardinality(Stops)
    /\ transit_rows["L2"].frequency = HeadwayUnit
    /\ \A i \in DOMAIN transit_rows["L2"].stop_time_deltas :
          transit_rows["L2"].stop_time_deltas[i] = RideUnit

\* a call route_walking(start_point, end_point) between two points of the
\* street, which is whole or has lost one edge
InitWalking ==
    /\ stop_pos = [n \in Stops |-> (n - FirstStop) * GridStep]
    /\ stop_index = [n \in Stops |-> RowPosition(n)]
    /\ transit_rows = [l \in {"L1"} |-> Row(<<FirstStop, LastStop>>, RideUnit, HeadwayUnit)]
    /\ graph_transit = create_graph_transit(transit_rows, stop_pos, stop_index)
    /\ heuristic = "euclidean"
    /\ graph_walk \in {Street} \cup { Street \ {e} : e \in Street }
    /\ other = NoQuery
    /\ mode = "walk"
    /\ src = Real_Start
    /\ dst = Real_Start
    /\ restricted_shapes = <<>>
    /\ start_point \in WalkPoints
    /\ end_point \in WalkPoints
    /\ pc = "route_walking"
    /\ line = <<>>
    /\ time_walking = NoneCost
    /\ InitLocals

graph_vars == <<stop_pos, stop_index, transit_rows, graph_transit, heuristic, mode,
                start_point, end_point, other, graph_walk, line, time_walking>>
planner_vars == <<start_walking_edges, restricted_shapes, alternatives, routes_list>>

\* where dijkstra_transit returns to
ReturnPc == IF mode = "stop" THEN "done" ELSE "segments"

\* lines 714-723: the search starts from the walking edges of the real origin
DijkstraSeedWalking ==
    /\ pc = "search"
    /\ start_walking_edges # <<>>
    /\ LET st == SeedWalking(start_walking_edges,
                     [cost |-> EmptyMap, previous |-> EmptyMap, queue |-> <<>>])
       IN  /\ cost' = st.cost
           /\ previous' = st.previous
           /\ queue' = st.queue
    /\ src' = Real_Start
    /\ end_shape' = None
    /\ path' = <<>>
    /\ total_cost' = NoneCost
    /\ pc' = "loop"
    /\ UNCHANGED <<graph_vars, planner_vars, dst>>

\* lines 724-741: the search starts from the edges leaving src
DijkstraSeedEdges ==
    /\ pc = "search"
    /\ start_walking_edges = <<>>
    /\ LET st == SeedEdges(OutEdges(graph_transit, src),
                     [cost |-> EmptyMap, previous |-> EmptyMap, queue |-> <<>>])
       IN  /\ cost' = st.cost
           /\ previous' = st.previous
           /\ queue' = st.queue
    /\ end_shape' = None
    /\ path' = <<>>
    /\ total_cost' = NoneCost
    /\ pc' = "loop"
    /\ UNCHANGED <<graph_vars, planner_vars, src, dst>>

\* lines 746-752: the destination is popped
DijkstraPopDestination ==
    /\ pc = "loop"
    /\ queue # <<>>
    /\ LET i == HeapMinIndex(queue)
       IN  /\ queue[i][2] = dst
           /\ end_shape' = queue[i][3]
           /\ queue' = RemoveAt(queue, i)
    /\ pc' = "found"
    /\ UNCHANGED <<graph_vars, planner_vars, src, dst, cost, previous, path, total_cost>>

\* lines 746-782: another state is popped and its edges are relaxed
DijkstraPopRelax ==
    /\ pc = "loop"
    /\ queue # <<>>
    /\ LET i == HeapMinIndex(queue)
           current == queue[i][2]
           current_shape == queue[i][3]
           st == Relax(OutEdges(graph_transit, current), current, current_shape,
                       [cost |-> cost, previous |-> previous, queue |-> RemoveAt(queue, i)])
       IN  /\ current # dst
           /\ cost' = st.cost
           /\ previous' = st.previous
           /\ queue' = st.queue
    /\ UNCHANGED <<graph_vars, planner_vars, src, dst, end_shape, path, total_cost, pc>>

\* mutant of DijkstraNoPath: the cost returned without a path is 0
DijkstraNoPathCostZero ==
    /\ pc = "loop"
    /\ queue = <<>>
    /\ path' = <<>>
    /\ total_cost' = 0
    /\ pc' = ReturnPc
    /\ UNCHANGED <<graph_vars, planner_vars, src, dst, cost, previous, queue, end_shape>>

\* lines 784-785: the queue is empty and the destination was not popped
DijkstraNoPath ==
    /\ pc = "loop"
    /\ queue = <<>>
    /\ path' = <<>>
    /\ total_cost' = NoneCost
    /\ pc' = ReturnPc
    /\ UNCHANGED <<graph_vars, planner_vars, src, dst, cost, previous, queue, end_shape>>

\* lines 788-797: the path is rebuilt from the predecessors
DijkstraReturnPath ==
    /\ pc = "found"
    /\ path' = Reverse(Append(FollowPrevious(previous, <<dst, end_shape>>), <<src, None>>))
    /\ total_cost' = cost[<<dst, end_shape>>]
    /\ pc' = ReturnPc
    /\ UNCHANGED <<graph_vars, planner_vars, src, dst, cost, previous, queue, end_shape>>

\* lines 443-449: the boarding set, the drop-off stop, the empty lists
RouteCombinedStart ==
    /\ pc = "route_combined"
    /\ start_walking_edges' = get_start_walking_edges(start_point)
    /\ dst' = get_end_transit_node(end_point)
    /\ restricted_shapes' = <<>>
    /\ alternatives' = Alternatives
    /\ routes_list' = <<>>
    /\ pc' = "search"
    /\ UNCHANGED <<graph_vars, src, cost, previous, queue, end_shape, path, total_cost>>

\* line 456: path_transit.append(('Real_End', 'walking'))
PathTransit == Append(path, <<Real_End, WALKING>>)

\* an element of routes_list: the frame and its total time, with the raw path
\* and the number of the iteration that produced it kept beside them
RouteEntry == 
    LET route_df == get_transit_segments_df(PathTransit)
    IN  [route_df |-> route_df, total_time |-> TotalTime(route_df),
         path_transit |-> PathTransit, generated |-> Len(routes_list) + 1]

\* lines 459-462: the frame has no row and no column, route_df['segment_time_seconds'] raises KeyError
RouteCombinedKeyError ==
    /\ pc = "segments"
    /\ get_transit_segments_df(PathTransit) = <<>>
    /\ pc' = "error"
    /\ UNCHANGED <<graph_vars, planner_vars, src, dst, cost, previous, queue, end_shape,
                   path, total_cost>>

\* mutant of RouteCombinedContinue: the iterations are not counted
RouteCombinedContinueUncounted ==
    /\ pc = "segments"
    /\ get_transit_segments_df(PathTransit) # <<>>
    /\ \E shape_to_restrict \in
            CurrentRouteShapes(get_transit_segments_df(PathTransit)) \ Range(restricted_shapes) :
          restricted_shapes' = Append(restricted_shapes, shape_to_restrict)
    /\ routes_list' = Append(routes_list, RouteEntry)
    /\ alternatives' = alternatives
    /\ pc' = "search"
    /\ UNCHANGED <<graph_vars, start_walking_edges, src, dst, cost, previous, queue,
                   end_shape, path, total_cost>>

\* lines 456-480: the alternative is appended and one of its shapes is restricted
RouteCombinedContinue ==
    /\ pc = "segments"
    /\ get_transit_segments_df(PathTransit) # <<>>
    /\ \E shape_to_restrict \in
            CurrentRouteShapes(get_transit_segments_df(PathTransit)) \ Range(restricted_shapes) :
          restricted_shapes' = Append(restricted_shapes, shape_to_restrict)
    /\ routes_list' = Append(routes_list, RouteEntry)
    /\ alternatives' = alternatives - 1
    /\ pc' = IF alternatives - 1 > 0 THEN "search" ELSE "sort"
    /\ UNCHANGED <<graph_vars, start_walking_edges, src, dst, cost, previous, queue,
                   end_shape, path, total_cost>>

\* lines 456-478: the alternative is appended and has no shape left to restrict
RouteCombinedBreak ==
    /\ pc = "segments"
    /\ get_transit_segments_df(PathTransit) # <<>>
    /\ CurrentRouteShapes(get_transit_segments_df(PathTransit)) \subseteq Range(restricted_shapes)
    /\ routes_list' = Append(routes_list, RouteEntry)
    /\ pc' = "sort"
    /\ UNCHANGED <<graph_vars, start_walking_edges, restricted_shapes, alternatives, src, dst,
                   cost, previous, queue, end_shape, path, total_cost>>

\* lines 482-485: the alternatives are sorted and returned
RouteCombinedReturn ==
    /\ pc = "sort"
    /\ routes_list' = SortRoutes(routes_list)
    /\ pc' = "done"
    /\ UNCHANGED <<graph_vars, start_walking_edges, restricted_shapes, alternatives, src, dst,
                   cost, previous, queue, end_shape, path, total_cost>>

\* mutant of ContextSwitch: restricted_shapes is one list for the two calls
ContextSwitchSharedList ==
    /\ other.pc # "none"
    /\ other' = Locals
    /\ start_point' = other.start_point
    /\ end_point' = other.end_point
    /\ src' = other.src
    /\ dst' = other.dst
    /\ start_walking_edges' = other.start_walking_edges
    /\ cost' = other.cost
    /\ previous' = other.previous
    /\ queue' = other.queue
    /\ end_shape' = other.end_shape
    /\ path' = other.path
    /\ total_cost' = other.total_cost
    /\ alternatives' = other.alternatives
    /\ routes_list' = other.routes_list
    /\ pc' = other.pc
    /\ UNCHANGED <<stop_pos, stop_index, transit_rows, graph_transit, heuristic, mode,
                   restricted_shapes, graph_walk, line, time_walking>>

\* the running thread is suspended and the other one resumed: each call has
\* its own arguments and locals (lines 441-449 and 701-711), the service is
\* shared
ContextSwitch ==
    /\ other.pc # "none"
    /\ other' = Locals
    /\ start_point' = other.start_point
    /\ end_point' = other.end_point
    /\ src' = other.src
    /\ dst' = other.dst
    /\ start_walking_edges' = other.start_walking_edges
    /\ restricted_shapes' = other.restricted_shapes
    /\ cost' = other.cost
    /\ previous' = other.previous
    /\ queue' = other.queue
    /\ end_shape' = other.end_shape
    /\ path' = other.path
    /\ total_cost' = other.total_cost
    /\ alternatives' = other.alternatives
    /\ routes_list' = other.routes_list
    /\ pc' = other.pc
    /\ UNCHANGED <<stop_pos, stop_index, transit_rows, graph_transit, heuristic, mode,
                   graph_walk, line, time_walking>>

\* lines 141-185: route_walking(start_point, end_point) returns
RouteWalking ==
    /\ pc = "route_walking"
    /\ line' = route_walking_line(start_point, end_point)
    /\ time_walking' = route_walking(start_point, end_point)
    /\ pc' = "done"
    /\ UNCHANGED <<stop_pos, stop_index, transit_rows, graph_transit, heuristic, mode,
                   start_point, end_point, other, graph_walk, planner_vars, src, dst, cost,
                   previous, queue, end_shape, path, total_cost>>

\* the steps of dijkstra_transit called with a stop as origin
NextSearch ==
    \/ DijkstraSeedEdges
    \/ DijkstraPopDestination
    \/ DijkstraPopRelax
    \/ DijkstraNoPath
    \/ DijkstraReturnPath

\* the steps of route_combined
NextPlanner ==
    \/ RouteCombinedStart
    \/ DijkstraSeedWalking
    \/ DijkstraPopDestination
    \/ DijkstraPopRelax
    \/ DijkstraNoPath
    \/ DijkstraReturnPath
    \/ RouteCombinedKeyError
    \/ RouteCombinedContinue
    \/ RouteCombinedBreak
    \/ RouteCombinedReturn

Next == NextSearch \/ RouteCombinedStart \/ DijkstraSeedWalking \/ RouteCombinedKeyError
        \/ RouteCombinedContinue \/ RouteCombinedBreak \/ RouteCombinedReturn

Spec == Init /\ [][Next]_vars

SpecSearch == InitSearch /\ [][NextSearch]_vars

SpecPlanner == InitPlanner /\ [][NextPlanner]_vars

\* the steps of two calls of route_combined on two threads
NextConcurrent ==
    \/ RouteCombinedStart
    \/ DijkstraSeedWalking
    \/ DijkstraPopDestination
    \/ DijkstraPopRelax
    \/ DijkstraNoPath
    \/ DijkstraReturnPath
    \/ RouteCombinedKeyError
    \/ RouteCombinedContinue
    \/ RouteCombinedBreak
    \/ RouteCombinedReturn
    \/ ContextSwitch

SpecConcurrent == InitConcurrent /\ [][NextConcurrent]_vars

SpecTrunk == InitTrunk /\ [][NextSearch]_vars

SpecWalking == InitWalking /\ [][RouteWalking]_vars

\* route_combined runs on one thread: the step it is at is taken.  For the
\* relaxation and for the end of an iteration weak fairness is written with
\* the enabling condition spelled out (a state is popped; the search has
\* returned), []<>~ENABLED <<A>>_vars \/ []<><<A>>_vars.
PlannerFairness ==
    /\ WF_vars(RouteCombinedStart)
    /\ WF_vars(DijkstraSeedWalking)
    /\ WF_vars(DijkstraPopDestination)
    /\ WF_vars(DijkstraNoPath)
    /\ WF_vars(DijkstraReturnPath)
    /\ WF_vars(RouteCombinedReturn)
    /\ ([]<>~(pc = "loop" /\ queue # <<>> /\ queue[HeapMinIndex(queue)][2] # dst)
        \/ []<><<DijkstraPopRelax>>_vars)
    /\ ([]<>~(pc = "segments")
        \/ []<><<RouteCombinedKeyError \/ RouteCombinedContinue \/ RouteCombinedBreak>>_vars)

SpecPlannerFair == InitThreeLines /\ [][NextPlanner]_vars /\ PlannerFairness

\* the boarding set of route_combined
SpecBoarding == InitBoarding /\ [][RouteCombinedStart]_vars

---------------------------------------------------------------------------
\* Reference: least costs over the product state space (stop, incoming line),
\* by relaxation to a fixed point, from the same seeds and with the same
\* penalty rule as the search.

ProductStates == Stops \X (Lines \cup {WALKING})

Min(S) == CHOOSE x \in S : \A y \in S : x <= y

\* the seeds of a search from stop s: weight + frequency of each edge allowed
ReferenceSeeds(s) ==
    LET out == { e \in OutEdges(graph_transit, s) : ~Restricted(e) }
        keys == { <<e.v, e.shape_id>> : e \in out }
    IN  [k \in keys |->
            Min({ e.weight + e.frequency : e \in { x \in out : <<x.v, x.shape_id>> = k } })]

\* the costs of reaching k by one more edge from the states of d, and d[k] itself
ReferenceCandidates(d, k) ==
    { d[j] + e.weight + Penalty(j[2], e.shape_id, e.frequency) :
        <<j, e>> \in { je \in (DOMAIN d) \X graph_transit :
                         /\ je[2].u = je[1][1]
                         /\ je[2].v = k[1]
                         /\ je[2].shape_id = k[2]
                         /\ ~Restricted(je[2])
                         /\ je[1][1] # dst } }
    \cup (IF k \in DOMAIN d THEN {d[k]} ELSE {})

ReferenceStep(d) ==
    [k \in { x \in ProductStates : ReferenceCandidates(d, x) # {} } |->
        Min(ReferenceCandidates(d, k))]

RECURSIVE ReferenceFix(_)
ReferenceFix(d) == IF ReferenceStep(d) = d THEN d ELSE ReferenceFix(ReferenceStep(d))

\* the least cost of a state at the destination, NoneCost when none is reachable
ReferenceCost ==
    LET d == ReferenceFix(ReferenceSeeds(src))
        at == { k \in DOMAIN d : k[1] = dst }
    IN  IF at = {} THEN NoneCost ELSE Min({ d[k] : k \in at })

---------------------------------------------------------------------------
\* C1: for every (s, d) with d reachable, a stop-origin search with the zero
\* heuristic returns the least cost of the reference Dijkstra over the
\* product state space (same initial charge, same transfer penalty rule).
C1_Optimal ==
    (pc = "done" /\ mode = "stop" /\ heuristic = "zero" /\ ReferenceCost # NoneCost)
        => total_cost = ReferenceCost

---------------------------------------------------------------------------
\* C2: no entry of a path returned by a search with forbidden set F has an
\* incoming line in F, in stop-origin and in virtual-origin mode, and no ride
\* segment of the itinerary built from it is on a line that was in F.
C2_NoForbiddenLine ==
    /\ ((mode = "stop" /\ pc = "done") \/ pc = "segments") =>
          \A i \in DOMAIN path : path[i][2] \notin Range(restricted_shapes)
    /\ \A k \in DOMAIN routes_list :
          \A i \in DOMAIN routes_list[k].route_df :
              routes_list[k].route_df[i].mode = "transit" =>
                  routes_list[k].route_df[i].shape_id \notin
                      Range(SubSeq(restricted_shapes, 1, routes_list[k].generated - 1))

\* a search with a forbidden line returned a path that rides another line
C2_Witness ==
    /\ pc = "segments"
    /\ restricted_shapes # <<>>
    /\ \E e \in graph_transit : e.shape_id \in Range(restricted_shapes)
    /\ \E i \in DOMAIN path : path[i][2] \in Lines

\* C3: when a search succeeded in one iteration and the destination is
\* unreachable in a later one, the loop stops and route_combined goes on to
\* return the alternatives produced so far.
C3_ReturnsAlternativesSoFar ==
    [][(pc = "segments" /\ path = <<>> /\ routes_list # <<>>)
          => (pc' = "sort" /\ routes_list' = routes_list)]_vars

\* C4: when the drop-off stop is unreachable in the first iteration,
\* route_combined returns an empty list and does not end in an error.
C4_EmptyListNoError ==
    [][(pc = "segments" /\ path = <<>> /\ routes_list = <<>>)
          => (pc' \in {"sort", "done"} /\ routes_list' = <<>>)]_vars

---------------------------------------------------------------------------
\* The relaxation step as the claims see it: the state popped, and the states
\* whose cost the step sets.

Popped == queue[HeapMinIndex(queue)]

\* the step from this state pops a state that is not at the destination
RelaxationStep == pc = "loop" /\ queue # <<>> /\ Popped[2] # dst

\* the step sets the cost of key
CostSet(key) ==
    /\ key \in DOMAIN cost'
    /\ key \notin DOMAIN cost \/ cost'[key] # cost[key]

\* C5 as claimed: an edge of a real line taken from a state reached by
\* walking adds no penalty: the new cost is the state's cost plus the edge's
\* travel time.
C5_NoPenaltyFromWalking ==
    [][RelaxationStep =>
          \A e \in OutEdges(graph_transit, Popped[2]) :
              (Popped[3] = WALKING /\ e.shape_id \in Lines /\ CostSet(<<e.v, e.shape_id>>))
                  => cost'[<<e.v, e.shape_id>>] = cost[<<Popped[2], Popped[3]>>] + e.weight]_vars

\* C5 as amended: an edge of a real line taken from a state reached by
\* walking is charged the edge's headway: the new cost is the state's cost
\* plus the edge's travel time plus the edge's frequency.
C5_HeadwayFromWalking ==
    [][RelaxationStep =>
          \A e \in OutEdges(graph_transit, Popped[2]) :
              (Popped[3] = WALKING /\ e.shape_id \in Lines /\ CostSet(<<e.v, e.shape_id>>))
                  => cost'[<<e.v, e.shape_id>>] =
                         cost[<<Popped[2], Popped[3]>>] + e.weight + e.frequency]_vars

\* a state reached by a real line has a state reached by walking as predecessor
C5_Witness ==
    /\ pc = "loop"
    /\ \E key \in DOMAIN previous :
          /\ key[2] \in Lines
          /\ previous[key][2] = WALKING
          /\ previous[key] \in DOMAIN cost
          /\ cost[key] > cost[previous[key]]

\* C6: from a state reached by a real line L_u, an edge of line L_e with
\* headway f adds f when L_e is a real line other than L_u, and nothing when
\* L_e is L_u or walking.
C6_TransferPenalty ==
    [][RelaxationStep =>
          \A e \in OutEdges(graph_transit, Popped[2]) :
              (Popped[3] \in Lines /\ CostSet(<<e.v, e.shape_id>>))
                  => cost'[<<e.v, e.shape_id>>] =
                         cost[<<Popped[2], Popped[3]>>] + e.weight
                         + (IF e.shape_id \in Lines /\ e.shape_id # Popped[3]
                            THEN e.frequency ELSE 0)]_vars

\* a state reached by a real line has a state reached by another real line as
\* predecessor, and one reached by walking has a state reached by a real line
C6_Witness ==
    /\ \E key \in DOMAIN previous :
          /\ key[2] \in Lines
          /\ previous[key][2] \in Lines
          /\ previous[key][2] # key[2]
    /\ \E key \in DOMAIN previous :
          /\ key[2] = WALKING
          /\ previous[key][2] \in Lines
    /\ \E key \in DOMAIN previous :
          /\ key[2] \in Lines
          /\ previous[key][2] = key[2]

---------------------------------------------------------------------------
\* The itineraries as the claims read them.

\* the transit lines an itinerary uses
LinesUsed(route_df) ==
    { route_df[i].shape_id : i \in { j \in DOMAIN route_df : route_df[j].mode = "transit" } }

\* the stop lists of the segments one after the other, the junction stop once
RECURSIVE ConcatStops(_)
ConcatStops(route_df) ==
    IF route_df = <<>> THEN <<>>
    ELSE LET n == Len(route_df)
             before == ConcatStops(SubSeq(route_df, 1, n - 1))
             stops == route_df[n].stops
         IN  IF before # <<>> /\ stops # <<>> /\ Last(before) = Head(stops)
             THEN before \o Tail(stops)
             ELSE before \o stops

\* the stops of a raw path
PathStops(p) == [i \in DOMAIN p |-> p[i][1]]

\* entry i of a raw path lies inside a run of walking hops: it and the next
\* entry are both reached by walking
InsideWalk(p, i) == i < Len(p) /\ p[i][2] = WALKING /\ p[i + 1][2] = WALKING

\* the stops of a raw path without those inside a run of walking hops
RECURSIVE EndsOfWalks(_, _)
EndsOfWalks(p, i) ==
    IF i > Len(p) THEN <<>>
    ELSE (IF InsideWalk(p, i) THEN <<>> ELSE <<p[i][1]>>) \o EndsOfWalks(p, i + 1)

\* C7: of two alternatives generated in consecutive iterations, the lines of
\* the earlier one are not a subset of the lines of the later one.
C7_ConsecutiveAlternativesDiffer ==
    \A i, j \in DOMAIN routes_list :
        routes_list[j].generated = routes_list[i].generated + 1
            => ~(LinesUsed(routes_list[i].route_df) \subseteq LinesUsed(routes_list[j].route_df))

\* two alternatives generated one after the other, both riding a line
C7_Witness ==
    \E i, j \in DOMAIN routes_list :
        /\ routes_list[j].generated = routes_list[i].generated + 1
        /\ LinesUsed(routes_list[i].route_df) # {}
        /\ LinesUsed(routes_list[j].route_df) # {}

\* C8 as claimed: the stop lists of the segments, concatenated with the
\* junction stop once, are the stop sequence of the raw path.
C8_SegmentsCoverPath ==
    \A k \in DOMAIN routes_list :
        ConcatStops(routes_list[k].route_df) = PathStops(routes_list[k].path_transit)

\* C8 as amended: the stop lists of the segments, concatenated with the
\* junction stop once, are the stop sequence of the raw path without the
\* stops inside a run of consecutive walking hops: a walking segment lists
\* the two ends of its run only.
C8_SegmentsCoverPathButWalkInteriors ==
    \A k \in DOMAIN routes_list :
        ConcatStops(routes_list[k].route_df) = EndsOfWalks(routes_list[k].path_transit, 1)

\* an itinerary of a raw path with two consecutive walking hops and a ride
C8_Witness ==
    \E k \in DOMAIN routes_list :
        /\ \E i \in DOMAIN routes_list[k].path_transit : InsideWalk(routes_list[k].path_transit, i)
        /\ LinesUsed(routes_list[k].route_df) # {}
        /\ Len(ConcatStops(routes_list[k].route_df)) < Len(routes_list[k].path_transit)

\* C9: no itinerary of route_combined has two walking segments in
\* consecutive positions.
C9_NoConsecutiveWalks ==
    \A k \in DOMAIN routes_list :
        \A i \in DOMAIN routes_list[k].route_df :
            i + 1 \in DOMAIN routes_list[k].route_df =>
                ~(routes_list[k].route_df[i].mode = "walking"
                  /\ routes_list[k].route_df[i + 1].mode = "walking")

\* a returned itinerary with a walk, a ride and a walk, and one that is a single
\* walk made of several walking hops
C9_Witness ==
    /\ pc = "done"
    /\ \E k \in DOMAIN routes_list :
          /\ Len(routes_list[k].route_df) >= 3
          /\ \E i \in DOMAIN routes_list[k].route_df : routes_list[k].route_df[i].mode = "walking"
    /\ \E k \in DOMAIN routes_list :
          /\ Len(routes_list[k].route_df) = 1
          /\ Len(routes_list[k].path_transit) >= 4

\* C10: the returned list is in non-decreasing order of total_time, and
\* alternatives of equal total_time are in the order of their generation.
C10_SortedStable ==
    (pc = "done" /\ mode = "virtual") =>
        \A i, j \in DOMAIN routes_list :
            i < j =>
                /\ routes_list[i].total_time <= routes_list[j].total_time
                /\ routes_list[i].total_time = routes_list[j].total_time
                       => routes_list[i].generated < routes_list[j].generated

\* a returned list the sort has reordered, with two alternatives of equal total time
C10_Witness ==
    /\ pc = "done"
    /\ mode = "virtual"
    /\ \E i, j \in DOMAIN routes_list :
          i < j /\ routes_list[i].generated > routes_list[j].generated
    /\ \E i, j \in DOMAIN routes_list :
          i < j /\ routes_list[i].total_time = routes_list[j].total_time

---------------------------------------------------------------------------
\* dijkstra_transit as a function of its heuristic argument h and of the
\* weight m the penalty has in the priority (2 in the code, line 780): the
\* same seeding, loop and relaxation, run to the return.

HeuristicCostWith(h, n) ==
    IF h = "euclidean" THEN euclidean_heuristic(stop_pos[n], stop_pos[dst])
    ELSE no_heuristic(stop_pos[n], stop_pos[dst])

RECURSIVE SeedWalkingWith(_, _, _)
SeedWalkingWith(h, edges, st) ==
    IF edges = <<>> THEN st
    ELSE LET first_transit_stop == Head(edges)[1]
             walking_time == Head(edges)[2]
             key == <<first_transit_stop, WALKING>>
         IN  SeedWalkingWith(h, Tail(edges),
                 [cost |-> Put(st.cost, key, walking_time),
                  previous |-> Put(st.previous, key, <<Real_Start, None>>),
                  queue |-> Append(st.queue,
                      <<walking_time + HeuristicCostWith(h, first_transit_stop),
                        first_transit_stop, WALKING>>)])

RECURSIVE SeedEdgesWith(_, _, _)
SeedEdgesWith(h, edges, st) ==
    IF edges = {} THEN st
    ELSE LET e == CHOOSE x \in edges : TRUE
             key == <<e.v, e.shape_id>>
             tentative_cost == e.weight + e.frequency
         IN  IF Restricted(e) THEN SeedEdgesWith(h, edges \ {e}, st)
             ELSE SeedEdgesWith(h, edges \ {e},
                 [cost |-> Put(st.cost, key, tentative_cost),
                  previous |-> Put(st.previous, key, <<src, None>>),
                  queue |-> Append(st.queue,
                      <<tentative_cost + HeuristicCostWith(h, e.v), e.v, e.shape_id>>)])

RECURSIVE RelaxWith(_, _, _, _, _, _)
RelaxWith(h, m, edges, current, current_shape, st) ==
    IF edges = {} THEN st
    ELSE LET e == CHOOSE x \in edges : TRUE
             key == <<e.v, e.shape_id>>
             penalty == Penalty(current_shape, e.shape_id, e.frequency)
             tentative_cost == st.cost[<<current, current_shape>>] + e.weight + penalty
         IN  IF Restricted(e) THEN RelaxWith(h, m, edges \ {e}, current, current_shape, st)
             ELSE IF key \notin DOMAIN st.cost \/ tentative_cost < st.cost[key]
             THEN RelaxWith(h, m, edges \ {e}, current, current_shape,
                 [cost |-> Put(st.cost, key, tentative_cost),
                  previous |-> Put(st.previous, key, <<current, current_shape>>),
                  queue |-> Append(st.queue,
                      <<tentative_cost + (HeuristicCostWith(h, e.v) + m * penalty),
                        e.v, e.shape_id>>)])
             ELSE RelaxWith(h, m, edges \ {e}, current, current_shape, st)

\* the while loop: the cost of the first state popped at dst, NoneCost when
\* the queue empties
RECURSIVE MainLoopWith(_, _, _)
MainLoopWith(h, m, st) ==
    IF st.queue = <<>> THEN NoneCost
    ELSE LET i == HeapMinIndex(st.queue)
             current == st.queue[i][2]
             current_shape == st.queue[i][3]
         IN  IF current = dst THEN st.cost[<<current, current_shape>>]
             ELSE MainLoopWith(h, m,
                      RelaxWith(h, m, OutEdges(graph_transit, current), current, current_shape,
                                [st EXCEPT !.queue = RemoveAt(st.queue, i)]))

\* the cost the call in progress returns when run with h and m
dijkstra_transit_cost(h, m) ==
    LET empty == [cost |-> EmptyMap, previous |-> EmptyMap, queue |-> <<>>]
    IN  MainLoopWith(h, m,
            IF start_walking_edges # <<>>
            THEN SeedWalkingWith(h, start_walking_edges, empty)
            ELSE SeedEdgesWith(h, OutEdges(graph_transit, src), empty))

\* a search has returned to its caller
Returned == (mode = "stop" /\ pc = "done") \/ (mode = "virtual" /\ pc = "segments")

\* the function run with the heuristic of the service and the weight 2 is the
\* search of the actions
FunctionIsSearch == Returned => total_cost = dijkstra_transit_cost(heuristic, 2)

\* the heuristic the service does not use
OtherHeuristic == IF heuristic = "euclidean" THEN "zero" ELSE "euclidean"

\* C13: the cost a search returns with one heuristic is the cost the same
\* search (same graph, origin, destination, forbidden set) returns with the
\* other: euclidean and zero agree.
C13_HeuristicsAgree ==
    Returned => total_cost = dijkstra_transit_cost(OtherHeuristic, 2)

---------------------------------------------------------------------------
\* C11: route_combined returns at most 3 alternatives, and at least one
\* whenever the first search finds a path: the call holds at most 3
\* alternatives at any time, a returned list that followed a first path is
\* not empty, and a call whose first search found a path (it holds an
\* alternative) does not end in an error.
C11_AtMostThreeAtLeastOne ==
    /\ Len(routes_list) <= 3
    /\ (pc = "done" /\ mode = "virtual" /\ restricted_shapes # <<>>) => Len(routes_list) >= 1
    /\ (mode = "virtual" /\ routes_list # <<>>) => pc # "error"

---------------------------------------------------------------------------
\* C12: for every walking edge u -> v of the graph there is a walking edge
\* v -> u of the same weight, whatever the index labels of the stops table.
C12_WalkingEdgesSymmetric ==
    \A e \in graph_transit :
        e.shape_id = WALKING =>
            \E f \in graph_transit :
                f.shape_id = WALKING /\ f.u = e.v /\ f.v = e.u /\ f.weight = e.weight

---------------------------------------------------------------------------
\* the seeds of a search from the virtual origin: the walking time of each entry
ReferenceWalkingSeeds ==
    LET keys == { <<start_walking_edges[i][1], WALKING>> : i \in DOMAIN start_walking_edges }
    IN  [k \in keys |->
            Min({ start_walking_edges[i][2] :
                    i \in { j \in DOMAIN start_walking_edges : start_walking_edges[j][1] = k[1] } })]

\* the least, over the entries, of the walking time plus the least cost from
\* (stop, walking) to a state at the destination; NoneCost when none is reachable
VirtualReferenceCost ==
    LET d == ReferenceFix(ReferenceWalkingSeeds)
        at == { k \in DOMAIN d : k[1] = dst }
    IN  IF at = {} THEN NoneCost ELSE Min({ d[k] : k \in at })

\* C14: the cost a search from a virtual origin of several entries returns is
\* the least over the entries of the walking time plus the cheapest cost from
\* (stop, walking) to the destination.
C14_LeastOverEntries ==
    (mode = "virtual" /\ pc = "segments" /\ Len(start_walking_edges) >= 2 /\ path # <<>>)
        => total_cost = VirtualReferenceCost

---------------------------------------------------------------------------
\* C15: the total_time of an itinerary is the sum of segment_time_seconds of
\* all its segments plus the sum of the headways of its ride segments; a
\* walking segment adds no headway.
C15_TotalTime ==
    \A k \in DOMAIN routes_list :
        LET route_df == routes_list[k].route_df
        IN  /\ \A i \in DOMAIN route_df :
                  /\ route_df[i].segment_time_seconds >= 0
                  /\ route_df[i].mode = "transit" => route_df[i].frequency > 0
            /\ routes_list[k].total_time =
                  SumSeq([i \in DOMAIN route_df |-> route_df[i].segment_time_seconds])
                  + SumSeq([i \in DOMAIN route_df |->
                               IF route_df[i].mode = "transit" THEN route_df[i].frequency ELSE 0])

\* an itinerary with a walk that takes time and a ride
C15_Witness ==
    \E k \in DOMAIN routes_list :
        LET route_df == routes_list[k].route_df
        IN  \E i, j \in DOMAIN route_df :
                /\ route_df[i].mode = "walking" /\ route_df[i].segment_time_seconds > 0
                /\ route_df[j].mode = "transit" /\ route_df[j].frequency > 0

---------------------------------------------------------------------------
\* sub is a run of consecutive elements of full
IsContiguousIn(sub, full) ==
    \E o \in 0..(Len(full) - Len(sub)) : \A j \in DOMAIN sub : full[o + j] = sub[j]

\* C16: the stop list of every ride segment of an itinerary is a contiguous
\* subsequence of the stop sequence of the segment's line (the lines are
\* acyclic and the ride edges join consecutive stops of a line).
C16_RideStopsContiguous ==
    \A k \in DOMAIN routes_list :
        \A i \in DOMAIN routes_list[k].route_df :
            LET seg == routes_list[k].route_df[i]
            IN  seg.mode = "transit" =>
                    /\ seg.shape_id \in DOMAIN transit_rows
                    /\ Len(seg.stops) >= 2
                    /\ IsContiguousIn(seg.stops, transit_rows[seg.shape_id].stop_ids)

\* a ride over a part of a line of three stops, not from the line's first stop
C16_Witness ==
    \E k \in DOMAIN routes_list :
        \E i \in DOMAIN routes_list[k].route_df :
            LET seg == routes_list[k].route_df[i]
            IN  /\ seg.mode = "transit"
                /\ Len(transit_rows[seg.shape_id].stop_ids) = 3
                /\ Len(seg.stops) = 2
                /\ seg.stops[1] = transit_rows[seg.shape_id].stop_ids[2]

---------------------------------------------------------------------------
\* C17: the segments of every itinerary are in travel order: the first starts
\* at Real_Start, the last ends at Real_End, and each segment starts at the
\* stop where the segment before it ends.
C17_TravelOrder ==
    \A k \in DOMAIN routes_list :
        LET route_df == routes_list[k].route_df
        IN  /\ route_df # <<>>
            /\ Head(route_df[1].stops) = Real_Start
            /\ Last(route_df[Len(route_df)].stops) = Real_End
            /\ \A i \in 1..(Len(route_df) - 1) :
                  Head(route_df[i + 1].stops) = Last(route_df[i].stops)

\* a returned itinerary of four segments, two of them rides
C17_Witness ==
    /\ pc = "done"
    /\ \E k \in DOMAIN routes_list :
          LET route_df == routes_list[k].route_df
          IN  /\ Len(route_df) >= 4
              /\ \E i \in 1..(Len(route_df) - 1) :
                    route_df[i].mode = "transit" /\ route_df[i + 1].mode = "transit"

---------------------------------------------------------------------------
\* C18: a search whose queue emptied without a state at the destination
\* being popped (end_shape was never set) returns the empty path and the
\* cost None, in stop-origin and in virtual-origin mode.
C18_NoPathReturnsEmptyAndNone ==
    (Returned /\ end_shape = None) =>
        /\ queue = <<>>
        /\ path = <<>>
        /\ total_cost = NoneCost

\* a search from a virtual origin that relaxed states and ran out of them
C18_Witness ==
    /\ mode = "virtual"
    /\ pc = "segments"
    /\ end_shape = None
    /\ queue = <<>>
    /\ Cardinality(DOMAIN cost) >= 2
    /\ \A key \in DOMAIN cost : key[1] # dst

---------------------------------------------------------------------------
\* C19: two calls of route_combined interleaved on one service do not
\* interfere: no step changes the graph, the stop table or the line table; a
\* step of the running call leaves the arguments and locals of the suspended
\* call as they are, and a switch hands each call exactly what it had, so
\* each call takes the steps it takes alone; and every search of an
\* interleaved call returns the cost that dijkstra_transit, as a function of
\* that call's own arguments, returns.
C19_QueriesIndependent ==
    /\ [](Returned => total_cost = dijkstra_transit_cost(heuristic, 2))
    /\ [][/\ <<stop_pos, stop_index, transit_rows, graph_transit, heuristic>>' =
               <<stop_pos, stop_index, transit_rows, graph_transit, heuristic>>
          /\ \/ other' = other /\ start_point' = start_point /\ end_point' = end_point
             \/ other' = Locals /\ Locals' = other]_vars

\* both calls are in the middle of their second iteration, with different
\* forbidden lists
C19_Witness ==
    /\ other.pc = "segments"
    /\ pc = "loop"
    /\ routes_list # <<>>
    /\ other.routes_list # <<>>
    /\ restricted_shapes # other.restricted_shapes
    /\ queue # <<>>

---------------------------------------------------------------------------
\* C20: the 2*penalty in the priority does not change the cost returned: a
\* search returns the cost the same search returns with the term removed
\* from the priority.
C20_PriorityTermKeepsCost ==
    Returned => total_cost = dijkstra_transit_cost(heuristic, 0)

---------------------------------------------------------------------------
\* the edge of a hop of a path: from stop u to stop v by the line of the entry at v
HopEdge(u, v, shape_id) ==
    CHOOSE e \in graph_transit : e.u = u /\ e.v = v /\ e.shape_id = shape_id

\* the charge of the first hop of a path: the walking time of the entry of the
\* virtual origin, or travel time plus headway of the edge leaving the origin stop
InitialCharge(p) ==
    IF p[1][1] = Real_Start
    THEN Min({ start_walking_edges[i][2] :
                 i \in { j \in DOMAIN start_walking_edges : start_walking_edges[j][1] = p[2][1] } })
    ELSE LET e == HopEdge(p[1][1], p[2][1], p[2][2]) IN e.weight + e.frequency

\* the cost of the hops 2..n of a path: travel time plus transfer penalty of each
RECURSIVE LaterHopsCost(_, _)
LaterHopsCost(p, i) ==
    IF i >= Len(p) THEN 0
    ELSE LET e == HopEdge(p[i][1], p[i + 1][1], p[i + 1][2])
         IN  e.weight + Penalty(p[i][2], p[i + 1][2], e.frequency) + LaterHopsCost(p, i + 1)

RecomputedCost(p) == InitialCharge(p) + LaterHopsCost(p, 2)

\* C21: the cost returned with a non-empty path is the cost recomputed along
\* the path: the initial charge of the first hop, then travel time and
\* transfer penalty of each later hop.
C21_CostIsCostOfPath ==
    (Returned /\ path # <<>>) => total_cost = RecomputedCost(path)

\* the search returns a cost above the cost of the path it returns
C21_CostAbovePath ==
    Returned /\ path # <<>> /\ total_cost > RecomputedCost(path)

---------------------------------------------------------------------------
\* the step relaxes an edge of a line other than the line of the popped state
\* and sets the cost of the state it leads to
TransferRelaxed(e) ==
    /\ Popped[3] \in Lines
    /\ e.shape_id \in Lines
    /\ e.shape_id # Popped[3]
    /\ CostSet(<<e.v, e.shape_id>>)

\* C22 as stated: a transfer from a line L_u to another line L_e is charged
\* the headway of L_u, the line left.
C22_HeadwayOfLineLeft ==
    [][RelaxationStep =>
          \A e \in OutEdges(graph_transit, Popped[2]) :
              TransferRelaxed(e)
                  => cost'[<<e.v, e.shape_id>>] =
                         cost[<<Popped[2], Popped[3]>>] + e.weight
                         + transit_rows[Popped[3]].frequency]_vars

\* C22 amended: a transfer from a line L_u to another line L_e is charged the
\* headway of L_e, the line boarded.
C22_HeadwayOfLineBoarded ==
    [][RelaxationStep =>
          \A e \in OutEdges(graph_transit, Popped[2]) :
              TransferRelaxed(e)
                  => cost'[<<e.v, e.shape_id>>] =
                         cost[<<Popped[2], Popped[3]>>] + e.weight
                         + transit_rows[e.shape_id].frequency]_vars

\* a state has been reached by a transfer between two lines of different headways
C22_Witness ==
    \E key \in DOMAIN previous :
        /\ key[2] \in Lines
        /\ previous[key][2] \in Lines
        /\ previous[key][2] # key[2]
        /\ transit_rows[previous[key][2]].frequency # transit_rows[key[2]].frequency

---------------------------------------------------------------------------
\* C23: the walking edges of the graph are exactly the ordered pairs of
\* distinct stops within walking distance of each other, whatever the index
\* labels of the stops table: no stop has a walking edge to itself and no
\* pair in range is left out.
C23_WalkingEdgesExactlyInRange ==
    { <<e.u, e.v>> : e \in { f \in graph_transit : f.shape_id = WALKING } } =
    { pr \in (DOMAIN stop_pos) \X (DOMAIN stop_pos) :
        /\ pr[1] # pr[2]
        /\ WithinWalkingDistance(Distance(stop_pos[pr[1]], stop_pos[pr[2]])) }

---------------------------------------------------------------------------
\* C24: a non-empty path returned by the search starts with (src, None), ends
\* with the destination and the line it was reached by, has the destination
\* stop in no other entry when src is another stop, and every two consecutive
\* entries after the origin entry are joined by a graph edge of the line of
\* the second.
C24_PathWellFormed ==
    (Returned /\ path # <<>>) =>
        /\ path[1] = <<src, None>>
        /\ path[Len(path)] = <<dst, end_shape>>
        /\ src # dst => \A i \in 1..(Len(path) - 1) : path[i][1] # dst
        /\ \A i \in 2..(Len(path) - 1) :
              \E e \in graph_transit :
                  e.u = path[i][1] /\ e.v = path[i + 1][1] /\ e.shape_id = path[i + 1][2]

\* a path of two hops or more between two different stops is returned
C24_Witness ==
    /\ Returned
    /\ Len(path) >= 3
    /\ src # dst
    /\ path[2][1] # dst

---------------------------------------------------------------------------
\* the edges leaving the origin stop whose line is not forbidden
SeedableEdges == { e \in OutEdges(graph_transit, src) : e.shape_id \notin Range(restricted_shapes) }

\* the states in the queue
Queued(q) == { <<q[i][2], q[i][3]>> : i \in DOMAIN q }

\* C25: from an origin stop the search seeds one state (neighbor, line) for
\* each outgoing edge of the origin whose line is not forbidden, at cost
\* travel time plus headway; from the virtual origin it seeds (stop, walking)
\* for each entry of the boarding list, at cost the walking time of the entry;
\* the predecessor of every seed is the origin entry.
C25_Seeds ==
    [][pc = "search" =>
          IF start_walking_edges = <<>>
          THEN /\ DOMAIN cost' = { <<e.v, e.shape_id>> : e \in SeedableEdges }
               /\ Queued(queue') = DOMAIN cost'
               /\ Len(queue') = Cardinality(SeedableEdges)
               /\ \A e \in SeedableEdges :
                     /\ cost'[<<e.v, e.shape_id>>] = e.weight + e.frequency
                     /\ previous'[<<e.v, e.shape_id>>] = <<src, None>>
          ELSE /\ DOMAIN cost' = { <<start_walking_edges[i][1], WALKING>> :
                                     i \in DOMAIN start_walking_edges }
               /\ Queued(queue') = DOMAIN cost'
               /\ Len(queue') = Len(start_walking_edges)
               /\ \A i \in DOMAIN start_walking_edges :
                     /\ cost'[<<start_walking_edges[i][1], WALKING>>] = start_walking_edges[i][2]
                     /\ previous'[<<start_walking_edges[i][1], WALKING>>] = <<Real_Start, None>>]_vars

\* the search from an origin stop has just been seeded with a ride edge and a
\* walking edge, and an edge of a forbidden line was left out
C25_Witness ==
    /\ mode = "stop"
    /\ pc = "loop"
    /\ Len(queue) = Cardinality(SeedableEdges)
    /\ DOMAIN cost = Queued(queue)
    /\ \E e \in SeedableEdges : e.shape_id \in Lines
    /\ \E e \in SeedableEdges : e.shape_id = WALKING
    /\ \E e \in OutEdges(graph_transit, src) : e \notin SeedableEdges

---------------------------------------------------------------------------
\* route_walking has returned
Walked == mode = "walk" /\ pc = "done"

\* the two ends of the walk snap to one node of the street, or to two nodes
\* the street does not join
NoStreetRoute ==
    \/ nearest_nodes(start_point) = nearest_nodes(end_point)
    \/ ~has_path(nearest_nodes(start_point), nearest_nodes(end_point))

\* C26: when the two ends snap to the same node or the street has no path
\* between their nodes, route_walking returns the line of the two points and
\* the time of their direct distance at the slow speed; a walk from a point
\* to itself takes 0 seconds.
C26_DirectWalk ==
    Walked =>
        /\ NoStreetRoute =>
              /\ line = <<start_point, end_point>>
              /\ time_walking = SlowWalkTime(Distance(start_point, end_point))
        /\ start_point = end_point => time_walking = 0

\* a walk from a point off the nodes to itself has returned
C26_Witness ==
    /\ Walked
    /\ start_point = end_point
    /\ nearest_nodes(start_point) # start_point

---------------------------------------------------------------------------
\* an iteration of route_combined ends: its itinerary is appended
IterationEnds == pc = "segments" /\ routes_list' # routes_list

\* C27: the forbidden list never holds a line twice; an iteration that
\* continues appends exactly one line, a line of a transit segment of the
\* itinerary it generated; an iteration leaves the list as it is, and the loop
\* with it, only when its itinerary has no transit segment.
C27_ForbiddenListGrowsByOne ==
    /\ [](\A i, j \in DOMAIN restricted_shapes :
              restricted_shapes[i] = restricted_shapes[j] => i = j)
    /\ [][IterationEnds =>
             LET route_df == get_transit_segments_df(PathTransit)
             IN  IF restricted_shapes' = restricted_shapes
                 THEN LinesUsed(route_df) = {} /\ pc' = "sort"
                 ELSE /\ \E l \in LinesUsed(route_df) :
                            restricted_shapes' = Append(restricted_shapes, l)
                      /\ alternatives' = alternatives - 1]_vars

\* three iterations have forbidden a line each, or an itinerary that is one
\* walk has ended the loop after a line was forbidden
C27_Witness ==
    \/ Len(restricted_shapes) = Alternatives
    \/ /\ pc = "sort"
       /\ Len(restricted_shapes) = 1
       /\ Len(routes_list) = 2
       /\ LinesUsed(routes_list[2].route_df) = {}

---------------------------------------------------------------------------
\* get_start_walking_edges has returned
BoardingSetBuilt == mode = "virtual" /\ pc = "search"

\* the distance from the origin to the stop of an entry of the boarding set
BoardingDistance(i) == Distance(start_point, stop_pos[start_walking_edges[i][1]])

\* C28: the boarding set is never empty and holds the stop nearest to the
\* origin once (no stop twice); another stop is in it only when it is within
\* walking distance of the origin and the nearest stop is too.
C28_BoardingSet ==
    BoardingSetBuilt =>
        /\ start_walking_edges # <<>>
        /\ \A n \in Stops : BoardingDistance(1) <= Distance(start_point, stop_pos[n])
        /\ \A i, j \in DOMAIN start_walking_edges :
              start_walking_edges[i][1] = start_walking_edges[j][1] => i = j
        /\ \A i \in DOMAIN start_walking_edges :
              i # 1 => /\ WithinWalkingDistance(BoardingDistance(i))
                       /\ WithinWalkingDistance(BoardingDistance(1))

\* the boarding set of an origin off the stops holds the nearest stop and
\* another stop while a third stop is out of range
C28_Witness ==
    /\ BoardingSetBuilt
    /\ Len(start_walking_edges) = 2
    /\ BoardingDistance(1) > 0
    /\ \E n \in Stops : ~WithinWalkingDistance(Distance(start_point, stop_pos[n]))

\* the nearest stop is out of walking distance and is the only entry
C28_NearestOutOfRange ==
    /\ BoardingSetBuilt
    /\ ~WithinWalkingDistance(BoardingDistance(1))
    /\ Len(start_walking_edges) = 1

---------------------------------------------------------------------------
\* following the predecessors from a state leaves the keys of previous within n steps
RECURSIVE LeavesWithin(_, _)
LeavesWithin(key, n) ==
    \/ key \notin DOMAIN previous
    \/ n > 0 /\ LeavesWithin(previous[key], n - 1)

\* no state is its own ancestor
PreviousAcyclic ==
    \A key \in DOMAIN previous : LeavesWithin(key, Cardinality(DOMAIN previous))

\* C29: the main loop of the search ends, the predecessors never form a
\* cycle, and the loop of route_combined ends after at most three iterations.
C29_Terminates ==
    /\ [](PreviousAcyclic /\ Len(routes_list) <= Alternatives)
    /\ (pc = "loop") ~> (pc \in {"found", "segments"})
    /\ <>(pc \in {"done", "error"})

\* route_combined has returned after three iterations
C29_Witness ==
    /\ pc = "done"
    /\ Len(routes_list) = Alternatives
    /\ alternatives = 0

---------------------------------------------------------------------------
\* A second run of the search on the same arguments, its heap laid out the
\* other way round: an entry pushed goes to the front of the list.

RECURSIVE RelaxAgain(_, _, _, _)
RelaxAgain(edges, current, current_shape, st) ==
    IF edges = {} THEN st
    ELSE LET e == CHOOSE x \in edges : TRUE
             key == <<e.v, e.shape_id>>
             penalty == Penalty(current_shape, e.shape_id, e.frequency)
             tentative_cost == st.cost[<<current, current_shape>>] + e.weight + penalty
         IN  IF Restricted(e) THEN RelaxAgain(edges \ {e}, current, current_shape, st)
             ELSE IF key \notin DOMAIN st.cost \/ tentative_cost < st.cost[key]
             THEN RelaxAgain(edges \ {e}, current, current_shape,
                 [cost |-> Put(st.cost, key, tentative_cost),
                  previous |-> Put(st.previous, key, <<current, current_shape>>),
                  queue |-> <<<<PriorityCost(tentative_cost, e.v, penalty), e.v, e.shape_id>>>>
                            \o st.queue])
             ELSE RelaxAgain(edges \ {e}, current, current_shape, st)

\* the while loop and the path: what the second run returns
RECURSIVE MainLoopAgain(_)
MainLoopAgain(st) ==
    IF st.queue = <<>> THEN [path |-> <<>>, total_cost |-> NoneCost]
    ELSE LET i == HeapMinIndex(st.queue)
             current == st.queue[i][2]
             current_shape == st.queue[i][3]
         IN  IF current = dst
             THEN [path |-> Reverse(Append(FollowPrevious(st.previous, <<current, current_shape>>),
                                           <<src, None>>)),
                   total_cost |-> st.cost[<<current, current_shape>>]]
             ELSE MainLoopAgain(
                      RelaxAgain(OutEdges(graph_transit, current), current, current_shape,
                                 [st EXCEPT !.queue = RemoveAt(st.queue, i)]))

dijkstra_transit_again ==
    LET empty == [cost |-> EmptyMap, previous |-> EmptyMap, queue |-> <<>>]
        seeded == IF start_walking_edges # <<>>
                  THEN SeedWalking(start_walking_edges, empty)
                  ELSE SeedEdges(OutEdges(graph_transit, src), empty)
    IN  MainLoopAgain([seeded EXCEPT !.queue = Reverse(seeded.queue)])

\* C30: the search is deterministic: the entry popped is the least in the
\* order of (priority, stop, line), every other entry of the queue being an
\* equal tuple or a greater one, and a second run on the same arguments
\* returns the same path and the same cost.
C30_Deterministic ==
    /\ (pc = "loop" /\ queue # <<>>) =>
          \A j \in DOMAIN queue : queue[j] = Popped \/ EntryLess(Popped, queue[j])
    /\ Returned =>
          [path |-> path, total_cost |-> total_cost] = dijkstra_transit_again

\* two entries of equal priority for different states are in the queue
C30_Witness ==
    /\ pc = "loop"
    /\ \E i, j \in DOMAIN queue :
          /\ queue[i][1] = queue[j][1]
          /\ Popped = queue[i]
          /\ <<queue[i][2], queue[i][3]>> # <<queue[j][2], queue[j][3]>>

====
